---- MODULE Spec2Model ----
(***************************************************************************)
(* Model of the Inworld TTS client (src/src/inworld-tts.ts):               *)
(*   - InworldChunkedStream.run   : one HTTP request, newline-delimited    *)
(*     JSON response, frames put on the session queue;                     *)
(*   - InworldSynthesizeStream    : WebSocket session with two activities  *)
(*     (socket handlers installed by run(), and processInput()).           *)
(* The frame assembler (AudioByteStream) and the event queue come from     *)
(* @livekit/agents; the repository holds only their callers.               *)
(*                                                                         *)
(* Audio bytes are identified by their arrival index (1, 2, 3, ...), so    *)
(* loss, duplication and reordering of bytes are visible in the frames.    *)
(***************************************************************************)
EXTENDS Integers, Sequences, FiniteSets, TLC

\* ---------------------------------------------------------------- bounds
FrameSize == 2      \* bytes per assembler frame (scaled down)
MaxBody   == 5      \* characters in the chunked response body
MaxRead   == 4      \* characters delivered by one reader.read()
MaxInput  == 2      \* items pulled from the caller's input
MaxMsgs   == 3      \* inbound socket messages
MaxWritten == 8     \* bytes written to an assembler on its own
MaxChunk == 3       \* bytes of one write to it
MaxSessions == 2    \* sessions created through one facade
MaxUpdates  == 1    \* calls of updateOptions on one facade
MaxOptionCalls == 2 \* calls of updateOptions followed on their own
MaxCalls == 2       \* loadConfig calls
MaxClock == 3       \* last value of Date.now()
TtlMs == 2          \* CONFIG_CACHE_TTL_MS (scaled down)

\* No configuration.
NoConfig == [by |-> 0, from |-> "none"]

\* ------------------------------------------------------------ vocabulary
\* Characters of the response body.  NL is "\n", SP is whitespace.  A1, A2,
\* ER and NU each stand for the text of one complete JSON value:
\*   A1, A2 : {"result":{"audioContent": <base64 of 1 / 2 bytes>}}
\*   ER     : {"error":{"message":..., "code":...}}
\*   NU     : null   (valid JSON that is not an object)
\* X is text that is not JSON.  Two JSON values on one line are not JSON.
Chars == {"NL", "SP", "A1", "A2", "ER", "NU", "X"}

JsonValues == {"A1", "A2", "ER", "NU"}

\* Items of the caller's input sequence (tts.SynthesizeStream.FLUSH_SENTINEL
\* or a text fragment).
Items == {"t1", "t2", "FLUSH"}

\* Inbound socket messages:
\*   bad       : not JSON, or JSON null (JSON.parse / msg.result throws)
\*   noresult  : JSON without a result member
\*   other     : result without status, contextCreated, contextClosed, audio
\*   status    : result.status.code is non-zero
\*   created   : result.contextCreated
\*   closed    : result.contextClosed
\*   audio1/2  : result.audioChunk.audioContent of 1 / 2 bytes
Msgs == {"bad", "noresult", "other", "status", "created", "closed",
         "audio1", "audio2"}

VARIABLES
  \* ---- InworldChunkedStream.run
  cpc,        \* "init" | "reading" | "done" | "failed"
  cerr,       \* why run() threw: "none" | "http" | "noreader" | "transport"
              \*                  | "ApiError" | "TypeError" | "SyntaxError"
  body,       \* the response body the service sends (environment)
  pos,        \* characters of body already delivered by reader.read()
  buffer,     \* let buffer = ''  (text after the last newline)
  cbstream,   \* bytes held by the chunked session's AudioByteStream
  cbytes,     \* audio bytes decoded so far
  cqueue,     \* events put on this.queue
  cqclosed,   \* this.queue.close() was called
  csplit,     \* history: some read ended inside a line
  \* ---- InworldSynthesizeStream
  runState,   \* promise of run(): "notstarted"|"pending"|"resolved"|"rejected"
  rejectWith, \* "none" | "status" | "transport" | "unexpected"
  ws,         \* this.ws: "null" | "set"
  readyState, \* of the socket run() created: "NONE" | "CONNECTING" | "OPEN"
              \*                              | "CLOSING" | "CLOSED"
  wsWhy,      \* who started the closing: "none"|"local"|"abort"|"remote"|"error"
  inputEnded, \* this.inputEnded
  closed,     \* this.closed (set by super.close())
  pi,         \* processInput: "idle" | "loop" | "done"
  sent,       \* messages given to ws.send, in order
  sentData,   \* for each message of sent, the input item it carries ("-": none)
  sbstream,   \* bytes held by the streaming session's AudioByteStream
  sbytes,     \* audio bytes decoded so far
  squeue,     \* events put on this.queue
  sqclosed,   \* this.queue.close() was called
  \* ---- history of the streaming session (never read by the actions' guards
  \*      except to bound the run)
  pulled,     \* items pulled from this.input, in order
  exhausted,  \* the input iterator reported done
  pulledOpen, \* for each item of pulled, whether the socket was OPEN then
  msgs,       \* inbound messages handled, in order
  closeCalls, \* calls of close(): 0, 1, or 2 for two or more
  wsCloses,   \* calls of ws.close() on the socket
  closeEvt,   \* what held when the socket's close event fired
  \* ---- InworldTTS (the facade) and the sessions created through it
  fst,        \* "new" (constructor not run) | "ok" | "threw"
  optKey,     \* opts.apiKey given to the constructor: "undef", "" or a key
  envKey,     \* process.env.INWORLD_API_KEY: "undef", "" or a key
  config,     \* the fields getConfig() returns
  sess,       \* the sessions created, in order of creation
  streams,    \* #streams: the registered sessions (indices of sess)
  fclosed,    \* #closed
  fpc,        \* close(): "idle" | "closing" (suspended at an await)
  fvisited,   \* sessions the running close() has iterated over
  fcallReg,   \* #streams when the running close() was called
  fdone,      \* history: completed close() calls, #streams at the last call
  nupdates    \* history: calls of updateOptions

\* A frame assembler on its own: its buffer, the frames it returned so far,
\* the frames its last call returned, the number of bytes written, and the
\* number of flush() calls since the last write (2 for two or more).
VARIABLES abuf, aout, alast, awritten, aflushed

\* updateOptions on its own: the options object of the last call, the
\* configuration before that call, and the number of calls.
VARIABLES uopts, ubefore, ucalls

\* loadConfig (config module):
VARIABLES
  lsource,    \* process.env.CONFIG_SOURCE: "undef" | "file" | "mysql" | "bad"
  lclock,     \* Date.now()
  lcached,    \* let cached: [set, loadedAtMs, config]
  lcalls      \* the loadConfig calls made so far, in the order they started

cvars == <<cpc, cerr, body, pos, buffer, cbstream, cbytes, cqueue, cqclosed,
           csplit>>
svars == <<runState, rejectWith, ws, readyState, wsWhy, inputEnded, closed,
           pi, sent, sentData, sbstream, sbytes, squeue, sqclosed>>
hvars == <<pulled, pulledOpen, exhausted, msgs, closeCalls, wsCloses, closeEvt>>
fvars == <<fst, optKey, envKey, config, sess, streams, fclosed, fpc, fvisited,
           fcallReg, fdone, nupdates>>
avars == <<abuf, aout, alast, awritten, aflushed>>
uvars == <<uopts, ubefore, ucalls>>
lvars == <<lsource, lclock, lcached, lcalls>>
vars  == <<cvars, svars, hvars, fvars, avars, uvars, lvars>>

\* ---------------------------------------------------------------- helpers
Range(s) == {s[i] : i \in 1..Len(s)}

Min(a, b) == IF a < b THEN a ELSE b

RECURSIVE Flatten(_)
Flatten(ss) == IF ss = <<>> THEN <<>> ELSE Head(ss) \o Flatten(Tail(ss))

\* n fresh bytes following the n0 bytes already decoded
\* (Buffer.from(audioContent, 'base64') and the ArrayBuffer slice of it).
Decoded(n0, n) == [i \in 1..n |-> n0 + i]

\* ------------------------------------------------- AudioByteStream (spec 4.1)
RECURSIVE Chop(_)
Chop(b) == IF Len(b) < FrameSize THEN <<>>
           ELSE <<SubSeq(b, 1, FrameSize)>> \o Chop(SubSeq(b, FrameSize + 1, Len(b)))

\* write(bytes): append, return every complete frame, keep the remainder.
bstreamWrite(b, data) ==
  LET all == b \o data
      n   == Len(all) \div FrameSize
  IN [frames |-> Chop(all),
      buf    |-> SubSeq(all, n * FrameSize + 1, Len(all))]

\* Variant: flush() returns the remaining bytes and keeps them.
bstreamFlush_KeepsBuffer(b) ==
  [frames |-> IF b = <<>> THEN <<>> ELSE <<b>>,
   buf    |-> b]

\* flush(): the remaining bytes as one frame (no frame if there are none),
\* and the buffer is reset.
bstreamFlush(b) ==
  [frames |-> IF b = <<>> THEN <<>> ELSE <<b>>,
   buf    |-> <<>>]

\* Variant: every event is put as final.
Events_AllFinal(frames, final) ==
  [i \in 1..Len(frames) |-> [frame |-> frames[i], final |-> TRUE]]

\* The events put for a list of frames.
Events(frames, final) == [i \in 1..Len(frames) |-> [frame |-> frames[i], final |-> final]]

\* ------------------------------------------------------ chunked: line loop
\* buffer.split('\n')
RECURSIVE Split(_)
Split(s) ==
  IF s = <<>> THEN << <<>> >>
  ELSE LET r == Split(Tail(s))
       IN IF Head(s) = "NL" THEN << <<>> >> \o r
          ELSE << <<Head(s)>> \o Head(r) >> \o Tail(r)

Front(s) == SubSeq(s, 1, Len(s) - 1)
Last(s)  == s[Len(s)]

NotSpace(c) == c # "SP"

\* !line.trim()
IsBlank(line) == SelectSeq(line, NotSpace) = <<>>

\* JSON.parse(line): the value the line holds, or "SyntaxError".
JSONparse(line) ==
  LET t == SelectSeq(line, NotSpace)
  IN IF Len(t) = 1 /\ t[1] \in JsonValues THEN t[1] ELSE "SyntaxError"

AudioLen(v) == IF v = "A1" THEN 1 ELSE 2

\* Variant: every caught error is rethrown.
CatchLine_Rethrows(e, st) == [st EXCEPT !.err = e]

\* catch (e) { if (e instanceof SyntaxError) { warn; continue; } throw e; }
CatchLine(e, st) == IF e = "SyntaxError" THEN st ELSE [st EXCEPT !.err = e]

\* The body of "for (const line of lines)", for one line.
\* st = [bstream, queue, nbytes, err].
ProcessLine(line, st) ==
  IF IsBlank(line) THEN st
  ELSE LET v == JSONparse(line) IN
    CASE v = "SyntaxError" -> CatchLine("SyntaxError", st)
      [] v = "NU"          -> CatchLine("TypeError", st)
      [] v = "ER"          -> CatchLine("ApiError", st)
      [] OTHER             ->
           LET w == bstreamWrite(st.bstream, Decoded(st.nbytes, AudioLen(v)))
           IN [st EXCEPT !.bstream = w.buf,
                         !.nbytes  = st.nbytes + AudioLen(v),
                         !.queue   = st.queue \o Events(w.frames, FALSE)]

\* Variant: the loop goes on with the next line after an error.
RECURSIVE ProcessLines_GoesOn(_, _)
ProcessLines_GoesOn(lines, st) ==
  IF lines = <<>> THEN st
  ELSE ProcessLines_GoesOn(Tail(lines), ProcessLine(Head(lines), st))

\* The for loop: a thrown error leaves the loop, the rest is not processed.
RECURSIVE ProcessLines(_, _)
ProcessLines(lines, st) ==
  IF lines = <<>> THEN st
  ELSE LET r == ProcessLine(Head(lines), st)
       IN IF r.err # "none" THEN r ELSE ProcessLines(Tail(lines), r)

\* ------------------------------------------------------- chunked: actions
\* Variant: a request that fails still flushes and closes the event sequence.
CFetch_ClosesOnFailure ==
  /\ cpc = "init"
  /\ \E outcome \in {"ok", "http", "noreader", "transport"} :
       IF outcome = "ok"
       THEN /\ cpc' = "reading"
            /\ cerr' = cerr
            /\ UNCHANGED <<cqueue, cqclosed>>
       ELSE /\ cpc' = "failed"
            /\ cerr' = outcome
            /\ cqueue' = cqueue \o Events(<< <<>> >>, TRUE)
            /\ cqclosed' = TRUE
  /\ UNCHANGED <<body, pos, buffer, cbstream, cbytes, csplit>>
  /\ UNCHANGED <<svars, hvars, fvars, avars, uvars, lvars>>

\* await fetch(...); if (!response.ok) throw; if (!reader) throw.
CFetch ==
  /\ cpc = "init"
  /\ \E outcome \in {"ok", "http", "noreader", "transport"} :
       IF outcome = "ok"
       THEN /\ cpc' = "reading"
            /\ cerr' = cerr
       ELSE /\ cpc' = "failed"
            /\ cerr' = outcome
  /\ UNCHANGED <<body, pos, buffer, cbstream, cbytes, cqueue, cqclosed, csplit>>
  /\ UNCHANGED <<svars, hvars, fvars, avars, uvars, lvars>>

\* Variant: the text after the last newline is parsed at once, not kept.
CRead_ParsesPartial ==
  /\ cpc = "reading"
  /\ \E k \in 1..Min(MaxRead, Len(body) - pos) :
       LET text  == buffer \o SubSeq(body, pos + 1, pos + k)
           lines == Split(text)
           st    == ProcessLines(lines,
                       [bstream |-> cbstream, queue |-> cqueue,
                        nbytes |-> cbytes, err |-> "none"])
       IN /\ pos' = pos + k
          /\ buffer' = <<>>
          /\ cbstream' = st.bstream
          /\ cbytes' = st.nbytes
          /\ cqueue' = st.queue
          /\ cerr' = st.err
          /\ cpc' = IF st.err = "none" THEN "reading" ELSE "failed"
          /\ csplit' = (csplit \/ Last(lines) # <<>>)
  /\ UNCHANGED <<body, cqclosed>>
  /\ UNCHANGED <<svars, hvars, fvars, avars, uvars, lvars>>

\* One iteration of while (true) with done = false: k characters arrive.
CRead ==
  /\ cpc = "reading"
  /\ \E k \in 1..Min(MaxRead, Len(body) - pos) :
       LET text  == buffer \o SubSeq(body, pos + 1, pos + k)
           lines == Split(text)
           st    == ProcessLines(Front(lines),
                       [bstream |-> cbstream, queue |-> cqueue,
                        nbytes |-> cbytes, err |-> "none"])
       IN /\ pos' = pos + k
          /\ buffer' = Last(lines)
          /\ cbstream' = st.bstream
          /\ cbytes' = st.nbytes
          /\ cqueue' = st.queue
          /\ cerr' = st.err
          /\ cpc' = IF st.err = "none" THEN "reading" ELSE "failed"
          /\ csplit' = (csplit \/ Last(lines) # <<>>)
  /\ UNCHANGED <<body, cqclosed>>
  /\ UNCHANGED <<svars, hvars, fvars, avars, uvars, lvars>>

\* Variant: the text after the last newline is parsed as a last line.
CReadDone_ParsesRest ==
  /\ cpc = "reading"
  /\ pos = Len(body)
  /\ LET st == ProcessLines(<<buffer>>,
                  [bstream |-> cbstream, queue |-> cqueue,
                   nbytes |-> cbytes, err |-> "none"])
         f  == bstreamFlush(st.bstream)
     IN /\ cbytes' = st.nbytes
        /\ cerr' = st.err
        /\ IF st.err = "none"
           THEN /\ cbstream' = f.buf
                /\ cqueue' = st.queue \o Events(f.frames, TRUE)
                /\ cqclosed' = TRUE
                /\ cpc' = "done"
           ELSE /\ cbstream' = st.bstream
                /\ cqueue' = st.queue
                /\ cpc' = "failed"
                /\ UNCHANGED cqclosed
  /\ UNCHANGED <<body, pos, buffer, csplit>>
  /\ UNCHANGED <<svars, hvars, fvars, avars, uvars, lvars>>

\* Variant: the queue is closed without flushing the assembler.
CReadDone_NoFlush ==
  /\ cpc = "reading"
  /\ pos = Len(body)
  /\ cqclosed' = TRUE
  /\ cpc' = "done"
  /\ UNCHANGED <<cerr, body, pos, buffer, cbstream, cbytes, cqueue, csplit>>
  /\ UNCHANGED <<svars, hvars, fvars, avars, uvars, lvars>>

\* reader.read() reports done: flush the assembler, close the queue.
CReadDone ==
  /\ cpc = "reading"
  /\ pos = Len(body)
  /\ LET f == bstreamFlush(cbstream)
     IN /\ cbstream' = f.buf
        /\ cqueue' = cqueue \o Events(f.frames, TRUE)
  /\ cqclosed' = TRUE
  /\ cpc' = "done"
  /\ UNCHANGED <<cerr, body, pos, buffer, cbytes, csplit>>
  /\ UNCHANGED <<svars, hvars, fvars, avars, uvars, lvars>>

\* Variant: after a failed read the request is issued again.
CReadError_Retries ==
  /\ cpc = "reading"
  /\ cpc' = "init"
  /\ cerr' = "transport"
  /\ UNCHANGED <<body, pos, buffer, cbstream, cbytes, cqueue, cqclosed, csplit>>
  /\ UNCHANGED <<svars, hvars, fvars, avars, uvars, lvars>>

\* reader.read() rejects (the connection fails mid-stream).
CReadError ==
  /\ cpc = "reading"
  /\ cpc' = "failed"
  /\ cerr' = "transport"
  /\ UNCHANGED <<body, pos, buffer, cbstream, cbytes, cqueue, cqclosed, csplit>>
  /\ UNCHANGED <<svars, hvars, fvars, avars, uvars, lvars>>

\* --------------------------------------------------- streaming: primitives
\* resolve() / reject() of the promise run() returns: only the first settles.
Settle(rs, outcome) == IF rs = "pending" THEN outcome ELSE rs

SettleWhy(rs, old, why) == IF rs = "pending" THEN why ELSE old

\* Variant: put on a closed queue still appends.
QueuePut_IgnoresClosed(q, isClosed, evs) == [queue |-> q \o evs, threw |-> FALSE]

\* this.queue.put(...) for a list of events; put on a closed queue throws.
QueuePut(q, isClosed, evs) ==
  IF evs = <<>> THEN [queue |-> q, threw |-> FALSE]
  ELSE IF isClosed THEN [queue |-> q, threw |-> TRUE]
  ELSE [queue |-> q \o evs, threw |-> FALSE]

\* The message handler's chain of tests, as the branch a message takes.
\*   "throw"   JSON.parse or msg.result throws, caught by the handler
\*   "return"  if (!result) return;  and  if (result.contextCreated) return;
\*   "reject"  status.code is set and not 0
\*   "closed"  result.contextClosed
\*   "audio"   result.audioChunk?.audioContent
\*   "none"    none of the tests holds
Branch(m) ==
  CASE m = "bad"                  -> "throw"
    [] m \in {"noresult", "created"} -> "return"
    [] m = "status"               -> "reject"
    [] m = "closed"               -> "closed"
    [] m \in {"audio1", "audio2"} -> "audio"
    [] OTHER                      -> "none"

ChunkLen(m) == IF m = "audio1" THEN 1 ELSE 2

\* if (this.closed || !this.ws || this.ws.readyState !== WebSocket.OPEN) break;
LoopBreaks == closed \/ ws = "null" \/ readyState # "OPEN"

\* if (this.ws && this.ws.readyState === WebSocket.OPEN)
CanSendEnd == ws = "set" /\ readyState = "OPEN"

\* Variant: the two closing messages in the other order.
EndMsgs_Reversed == <<"close_context", "flush_context">>

\* The two messages sent when the input loop is left.
EndMsgs == <<"flush_context", "close_context">>

\* The message sent for one input item.
ItemMsg(d) == IF d = "FLUSH" THEN "flush_context" ELSE "send_text"

\* What the message sent for item d carries: send_text: { text: data }, and
\* flush_context: {} carries nothing.
MsgData(d) == IF d = "FLUSH" THEN "-" ELSE d

\* ws.on('close'): if (!this.inputEnded) reject(...)
CloseRejects == ~inputEnded

\* What the close handler makes of promise state rs when it reads ie from
\* this.inputEnded.
CloseOutcome(rs, ie) == IF ~ie THEN Settle(rs, "rejected") ELSE rs

\* Inbound messages are delivered while the socket is open, and still while
\* it is closing after a local ws.close() (the peer has not answered yet).
Delivering == readyState = "OPEN" \/ (readyState = "CLOSING" /\ wsWhy = "local")

\* ----------------------------------------------------- streaming: actions
\* run(): new WebSocket(...), handlers installed.
SRun ==
  /\ runState = "notstarted"
  /\ runState' = "pending"
  /\ ws' = "set"
  /\ readyState' = "CONNECTING"
  /\ UNCHANGED <<rejectWith, wsWhy, inputEnded, closed, pi, sent, sentData,
                 sbstream, sbytes, squeue, sqclosed>>
  /\ UNCHANGED <<cvars, hvars, fvars, avars, uvars, lvars>>

\* Variant: the open handler starts processInput() without sending create.
WsOpen_NoCreate ==
  /\ readyState = "CONNECTING"
  /\ readyState' = "OPEN"
  /\ pi' = "loop"
  /\ UNCHANGED <<runState, rejectWith, ws, wsWhy, inputEnded, closed, sent,
                 sentData, sbstream, sbytes, squeue, sqclosed>>
  /\ UNCHANGED <<cvars, hvars, fvars, avars, uvars, lvars>>

\* ws.on('open'): send the create message, start processInput() (which runs
\* up to its first await on this.input).
WsOpen ==
  /\ readyState = "CONNECTING"
  /\ readyState' = "OPEN"
  /\ sent' = Append(sent, "create")
  /\ sentData' = Append(sentData, "-")
  /\ pi' = "loop"
  /\ UNCHANGED <<runState, rejectWith, ws, wsWhy, inputEnded, closed,
                 sbstream, sbytes, squeue, sqclosed>>
  /\ UNCHANGED <<cvars, hvars, fvars, avars, uvars, lvars>>

\* Variant: the input loop is not left.
EndInput_StaysInLoop ==
  /\ sent' = IF CanSendEnd THEN sent \o EndMsgs ELSE sent
  /\ sentData' = IF CanSendEnd THEN sentData \o <<"-", "-">> ELSE sentData
  /\ inputEnded' = TRUE
  /\ pi' = "loop"

\* The code after the for-await loop of processInput.
EndInput ==
  /\ sent' = IF CanSendEnd THEN sent \o EndMsgs ELSE sent
  /\ sentData' = IF CanSendEnd THEN sentData \o <<"-", "-">> ELSE sentData
  /\ inputEnded' = TRUE
  /\ pi' = "done"

\* processInput: the input yields item d.
PiItem(d) ==
  /\ pi = "loop"
  /\ Len(pulled) < MaxInput
  /\ pulled' = Append(pulled, d)
  /\ pulledOpen' = Append(pulledOpen, readyState = "OPEN")
  /\ IF LoopBreaks
     THEN EndInput
     ELSE /\ sent' = Append(sent, ItemMsg(d))
          /\ sentData' = Append(sentData, MsgData(d))
          /\ UNCHANGED <<inputEnded, pi>>
  /\ UNCHANGED <<runState, rejectWith, ws, readyState, wsWhy, closed,
                 sbstream, sbytes, squeue, sqclosed>>
  /\ UNCHANGED <<exhausted, msgs, closeCalls, wsCloses, closeEvt>>
  /\ UNCHANGED <<cvars, fvars, avars, uvars, lvars>>

\* processInput: the input is exhausted (endInput() or close() by the caller).
PiEnd ==
  /\ pi = "loop"
  /\ exhausted' = TRUE
  /\ EndInput
  /\ UNCHANGED <<runState, rejectWith, ws, readyState, wsWhy, closed,
                 sbstream, sbytes, squeue, sqclosed>>
  /\ UNCHANGED <<pulled, pulledOpen, msgs, closeCalls, wsCloses, closeEvt>>
  /\ UNCHANGED <<cvars, fvars, avars, uvars, lvars>>

\* Variant: the catch block rejects the promise.
OnCaught_Rejects(rs) == Settle(rs, "rejected")

\* catch (e) { console.warn(...) } of the message handler.
OnCaught(rs) == rs

\* Variant: the handler closes the socket once contextClosed is handled.
WsMessage_ClosesSocket(m) ==
  /\ Delivering
  /\ Len(msgs) < MaxMsgs
  /\ msgs' = Append(msgs, m)
  /\ CASE Branch(m) = "throw" ->
            /\ runState' = OnCaught(runState)
            /\ UNCHANGED <<rejectWith, sbstream, sbytes, squeue, sqclosed>>
       [] Branch(m) = "reject" ->
            /\ runState' = Settle(runState, "rejected")
            /\ rejectWith' = SettleWhy(runState, rejectWith, "status")
            /\ UNCHANGED <<sbstream, sbytes, squeue, sqclosed>>
       [] Branch(m) = "closed" ->
            LET f == bstreamFlush(sbstream)
                p == QueuePut(squeue, sqclosed, Events(f.frames, TRUE))
            IN /\ sbstream' = f.buf
               /\ squeue' = p.queue
               /\ IF p.threw
                  THEN /\ runState' = OnCaught(runState)
                       /\ UNCHANGED <<rejectWith, sqclosed>>
                  ELSE /\ sqclosed' = TRUE
                       /\ runState' = Settle(runState, "resolved")
                       /\ UNCHANGED rejectWith
               /\ UNCHANGED sbytes
       [] Branch(m) = "audio" ->
            LET w == bstreamWrite(sbstream, Decoded(sbytes, ChunkLen(m)))
                p == QueuePut(squeue, sqclosed, Events(w.frames, FALSE))
            IN /\ sbstream' = w.buf
               /\ sbytes' = sbytes + ChunkLen(m)
               /\ squeue' = p.queue
               /\ runState' = IF p.threw THEN OnCaught(runState) ELSE runState
               /\ UNCHANGED <<rejectWith, sqclosed>>
       [] OTHER ->
            UNCHANGED <<runState, rejectWith, sbstream, sbytes, squeue, sqclosed>>
  /\ readyState' = IF Branch(m) = "closed" THEN "CLOSING" ELSE readyState
  /\ wsWhy' = IF Branch(m) = "closed" THEN "local" ELSE wsWhy
  /\ UNCHANGED <<ws, inputEnded, closed, pi, sent, sentData>>
  /\ UNCHANGED <<pulled, pulledOpen, exhausted, closeCalls, wsCloses, closeEvt>>
  /\ UNCHANGED <<cvars, fvars, avars, uvars, lvars>>

\* ws.on('message') for message m.
WsMessage(m) ==
  /\ Delivering
  /\ Len(msgs) < MaxMsgs
  /\ msgs' = Append(msgs, m)
  /\ CASE Branch(m) = "throw" ->
            /\ runState' = OnCaught(runState)
            /\ UNCHANGED <<rejectWith, sbstream, sbytes, squeue, sqclosed>>
       [] Branch(m) = "reject" ->
            /\ runState' = Settle(runState, "rejected")
            /\ rejectWith' = SettleWhy(runState, rejectWith, "status")
            /\ UNCHANGED <<sbstream, sbytes, squeue, sqclosed>>
       [] Branch(m) = "closed" ->
            LET f == bstreamFlush(sbstream)
                p == QueuePut(squeue, sqclosed, Events(f.frames, TRUE))
            IN /\ sbstream' = f.buf
               /\ squeue' = p.queue
               /\ IF p.threw
                  THEN /\ runState' = OnCaught(runState)
                       /\ UNCHANGED <<rejectWith, sqclosed>>
                  ELSE /\ sqclosed' = TRUE
                       /\ runState' = Settle(runState, "resolved")
                       /\ UNCHANGED rejectWith
               /\ UNCHANGED sbytes
       [] Branch(m) = "audio" ->
            LET w == bstreamWrite(sbstream, Decoded(sbytes, ChunkLen(m)))
                p == QueuePut(squeue, sqclosed, Events(w.frames, FALSE))
            IN /\ sbstream' = w.buf
               /\ sbytes' = sbytes + ChunkLen(m)
               /\ squeue' = p.queue
               /\ runState' = IF p.threw THEN OnCaught(runState) ELSE runState
               /\ UNCHANGED <<rejectWith, sqclosed>>
       [] OTHER ->
            UNCHANGED <<runState, rejectWith, sbstream, sbytes, squeue, sqclosed>>
  /\ UNCHANGED <<ws, readyState, wsWhy, inputEnded, closed, pi, sent, sentData>>
  /\ UNCHANGED <<pulled, pulledOpen, exhausted, closeCalls, wsCloses, closeEvt>>
  /\ UNCHANGED <<cvars, fvars, avars, uvars, lvars>>

\* The snapshot kept when the socket's close event fires.
Snapshot == [fired |-> TRUE, why |-> wsWhy, exhausted |-> exhausted,
             inputEnded |-> inputEnded, gotClosed |-> "closed" \in Range(msgs),
             pending |-> runState = "pending"]

\* ws.on('error'): reject(error).  The socket then goes on to close.  After a
\* close() during the handshake the library emits error and close together.
WsError ==
  /\ \/ readyState \in {"CONNECTING", "OPEN"}
     \/ readyState = "CLOSING" /\ wsWhy = "abort"
  /\ IF wsWhy = "abort"
     THEN /\ readyState' = "CLOSED"
          /\ closeEvt' = Snapshot
          /\ UNCHANGED wsWhy
     ELSE /\ readyState' = "CLOSING"
          /\ wsWhy' = "error"
          /\ UNCHANGED closeEvt
  /\ runState' = Settle(runState, "rejected")
  /\ rejectWith' = SettleWhy(runState, rejectWith, "transport")
  /\ UNCHANGED <<ws, inputEnded, closed, pi, sent, sentData, sbstream, sbytes,
                 squeue, sqclosed>>
  /\ UNCHANGED <<pulled, pulledOpen, exhausted, msgs, closeCalls, wsCloses>>
  /\ UNCHANGED <<cvars, fvars, avars, uvars, lvars>>

\* The remote side or the transport starts closing: the socket leaves OPEN
\* before its close event is delivered.
WsClosing ==
  /\ readyState = "OPEN"
  /\ readyState' = "CLOSING"
  /\ wsWhy' = "remote"
  /\ UNCHANGED <<runState, rejectWith, ws, inputEnded, closed, pi, sent,
                 sentData, sbstream, sbytes, squeue, sqclosed>>
  /\ UNCHANGED <<cvars, hvars, fvars, avars, uvars, lvars>>

\* Variant: a close after the input ended resolves the promise.
WsClose_Resolves ==
  /\ readyState = "CLOSING"
  /\ wsWhy # "abort"
  /\ readyState' = "CLOSED"
  /\ closeEvt' = Snapshot
  /\ IF CloseRejects
     THEN /\ runState' = Settle(runState, "rejected")
          /\ rejectWith' = SettleWhy(runState, rejectWith, "unexpected")
     ELSE /\ runState' = Settle(runState, "resolved")
          /\ UNCHANGED rejectWith
  /\ UNCHANGED <<ws, wsWhy, inputEnded, closed, pi, sent, sentData, sbstream,
                 sbytes, squeue, sqclosed>>
  /\ UNCHANGED <<pulled, pulledOpen, exhausted, msgs, closeCalls, wsCloses>>
  /\ UNCHANGED <<cvars, fvars, avars, uvars, lvars>>

\* ws.on('close').
WsClose ==
  /\ readyState = "CLOSING"
  /\ wsWhy # "abort"
  /\ readyState' = "CLOSED"
  /\ closeEvt' = Snapshot
  /\ IF CloseRejects
     THEN /\ runState' = Settle(runState, "rejected")
          /\ rejectWith' = SettleWhy(runState, rejectWith, "unexpected")
     ELSE UNCHANGED <<runState, rejectWith>>
  /\ UNCHANGED <<ws, wsWhy, inputEnded, closed, pi, sent, sentData, sbstream,
                 sbytes, squeue, sqclosed>>
  /\ UNCHANGED <<pulled, pulledOpen, exhausted, msgs, closeCalls, wsCloses>>
  /\ UNCHANGED <<cvars, fvars, avars, uvars, lvars>>

\* Variant: the socket reference is kept after ws.close().
SClose_KeepsSocket ==
  /\ closeCalls' = Min(closeCalls + 1, 2)
  /\ wsCloses' = IF ws = "set" THEN wsCloses + 1 ELSE wsCloses
  /\ IF ws = "set"
     THEN /\ readyState' = IF readyState \in {"CONNECTING", "OPEN"}
                           THEN "CLOSING" ELSE readyState
          /\ wsWhy' = CASE readyState = "CONNECTING" -> "abort"
                        [] readyState = "OPEN"       -> "local"
                        [] OTHER                     -> wsWhy
     ELSE UNCHANGED <<readyState, wsWhy>>
  /\ closed' = TRUE
  /\ UNCHANGED <<runState, rejectWith, ws, inputEnded, pi, sent, sentData,
                 sbstream, sbytes, squeue, sqclosed>>
  /\ UNCHANGED <<pulled, pulledOpen, exhausted, msgs, closeEvt>>
  /\ UNCHANGED <<cvars, fvars, avars, uvars, lvars>>

\* close(): if (this.ws) { this.ws.close(); this.ws = null; } super.close().
SClose ==
  /\ closeCalls' = Min(closeCalls + 1, 2)
  /\ wsCloses' = IF ws = "set" THEN wsCloses + 1 ELSE wsCloses
  /\ IF ws = "set"
     THEN /\ ws' = "null"
          /\ readyState' = IF readyState \in {"CONNECTING", "OPEN"}
                           THEN "CLOSING" ELSE readyState
          /\ wsWhy' = CASE readyState = "CONNECTING" -> "abort"
                        [] readyState = "OPEN"       -> "local"
                        [] OTHER                     -> wsWhy
     ELSE UNCHANGED <<ws, readyState, wsWhy>>
  /\ closed' = TRUE
  /\ UNCHANGED <<runState, rejectWith, inputEnded, pi, sent, sentData, sbstream,
                 sbytes, squeue, sqclosed>>
  /\ UNCHANGED <<pulled, pulledOpen, exhausted, msgs, closeEvt>>
  /\ UNCHANGED <<cvars, fvars, avars, uvars, lvars>>

\* ------------------------------------------------------------ the facade
Mutable == {"voice", "model", "temperature", "speakingRate"}

Fixed == {"apiKey", "sampleRate", "encoding", "bitRate", "baseUrl", "wsUrl"}

\* The options objects given to updateOptions: voice is undefined or a new
\* value, the other mutable options are all undefined or all given, and so
\* are the options updateOptions does not look at.
Opts ==
  {[f \in Mutable \cup Fixed |->
      IF f = "voice" THEN v ELSE IF f \in Mutable THEN m ELSE r] :
     v \in {"undef", "n"}, m \in {"undef", "n"}, r \in {"undef", "n"}}

\* opts.apiKey ?? process.env.INWORLD_API_KEY
ApiKey(opt, env) == IF opt # "undef" THEN opt ELSE env

\* !apiKey
Falsy(k) == k \in {"undef", ""}

\* The fields set by the constructor (no option but apiKey given: defaults).
Constructed(key) == [f \in Mutable \cup Fixed |-> IF f = "apiKey" THEN key ELSE "d"]

\* constructor(opts)
FNew ==
  /\ fst = "new"
  /\ LET apiKey == ApiKey(optKey, envKey)
     IN IF Falsy(apiKey)
        THEN /\ fst' = "threw"
             /\ UNCHANGED config
        ELSE /\ fst' = "ok"
             /\ config' = Constructed(apiKey)
  /\ UNCHANGED <<optKey, envKey, sess, streams, fclosed, fpc, fvisited,
                 fcallReg, fdone, nupdates>>
  /\ UNCHANGED <<cvars, svars, hvars, avars, uvars, lvars>>

\* A session object just constructed; atCreate is the configuration of the
\* facade at that time, used the one its run() read, born what close() of
\* the facade had done by then: "open" (not called), "closing" (flag set, the
\* call still awaiting a session) or "closed" (the first call has returned).
NewSession(kind) ==
  [kind |-> kind, atCreate |-> config, started |-> FALSE, used |-> config,
   closed |-> FALSE,
   born |-> IF ~fclosed THEN "open" ELSE IF fpc = "closing" THEN "closing" ELSE "closed"]

\* synthesize(text): return new InworldChunkedStream(this, text)
FSynthesize ==
  /\ fst = "ok"
  /\ Len(sess) < MaxSessions
  /\ sess' = Append(sess, NewSession("chunked"))
  /\ UNCHANGED <<fst, optKey, envKey, config, streams, fclosed, fpc, fvisited,
                 fcallReg, fdone, nupdates>>
  /\ UNCHANGED <<cvars, svars, hvars, avars, uvars, lvars>>

\* stream(): new InworldSynthesizeStream(this); this.#streams.add(stream)
FStream ==
  /\ fst = "ok"
  /\ Len(sess) < MaxSessions
  /\ sess' = Append(sess, NewSession("stream"))
  /\ streams' = streams \cup {Len(sess) + 1}
  /\ UNCHANGED <<fst, optKey, envKey, config, fclosed, fpc, fvisited,
                 fcallReg, fdone, nupdates>>
  /\ UNCHANGED <<cvars, svars, hvars, avars, uvars, lvars>>

\* Variant: every option that is defined is assigned.
UpdateOptions_AllFields(cfg, o) ==
  [f \in Mutable \cup Fixed |-> IF o[f] # "undef" THEN o[f] ELSE cfg[f]]

\* The fields after updateOptions(o) on a facade whose fields are cfg:
\* if (opts.voice !== undefined) this.voice = opts.voice; and so on.
UpdateOptions(cfg, o) ==
  [f \in Mutable \cup Fixed |->
     IF f \in Mutable /\ o[f] # "undef" THEN o[f] ELSE cfg[f]]

\* updateOptions(opts)
FUpdateOptions(o) ==
  /\ fst = "ok"
  /\ nupdates < MaxUpdates
  /\ nupdates' = nupdates + 1
  /\ config' = UpdateOptions(config, o)
  /\ UNCHANGED <<fst, optKey, envKey, sess, streams, fclosed, fpc, fvisited,
                 fcallReg, fdone>>
  /\ UNCHANGED <<cvars, svars, hvars, avars, uvars, lvars>>

\* The start of run() of session i: const config = this.ttsInstance.getConfig()
SessRun(i) ==
  /\ i \in 1..Len(sess)
  /\ ~sess[i].started
  /\ sess' = [sess EXCEPT ![i].started = TRUE, ![i].used = config]
  /\ UNCHANGED <<fst, optKey, envKey, config, streams, fclosed, fpc, fvisited,
                 fcallReg, fdone, nupdates>>
  /\ UNCHANGED <<cvars, svars, hvars, avars, uvars, lvars>>

\* Variant: a session that is closed removes itself from the registry.
SessClose_Unregisters(i) ==
  /\ i \in 1..Len(sess)
  /\ sess[i].kind = "stream"
  /\ ~sess[i].closed
  /\ sess' = [sess EXCEPT ![i].closed = TRUE]
  /\ streams' = streams \ {i}
  /\ UNCHANGED <<fst, optKey, envKey, config, fclosed, fpc, fvisited,
                 fcallReg, fdone, nupdates>>
  /\ UNCHANGED <<cvars, svars, hvars, avars, uvars, lvars>>

\* close() called on streaming session i by its user.
SessClose(i) ==
  /\ i \in 1..Len(sess)
  /\ sess[i].kind = "stream"
  /\ ~sess[i].closed
  /\ sess' = [sess EXCEPT ![i].closed = TRUE]
  /\ UNCHANGED <<fst, optKey, envKey, config, streams, fclosed, fpc, fvisited,
                 fcallReg, fdone, nupdates>>
  /\ UNCHANGED <<cvars, svars, hvars, avars, uvars, lvars>>

\* The history of a close() call that returns now; reg is #streams at its
\* call, failed the session whose close() threw (0: none, the call resolves).
Done(reg, failed) == [n |-> Min(fdone.n + 1, 2), reg |-> reg, failed |-> failed]

\* for (const stream of this.#streams): the next session of the iteration
\* (a Set is iterated in insertion order, entries added meanwhile included).
Pending(visited) == {i \in streams : i \notin visited}

NextOf(visited) == CHOOSE i \in Pending(visited) : \A j \in Pending(visited) : i <= j

\* The loop of close() from its start or from an await, up to the next await
\* (await stream.close()) or to this.#streams.clear() and the return.  When
\* stream.close() throws, nothing catches it: close() of the facade rejects
\* there, and the session is left closed or not.
CloseLoop(visited, reg) ==
  IF Pending(visited) = {}
  THEN /\ streams' = {}
       /\ fpc' = "idle"
       /\ fvisited' = {}
       /\ fdone' = Done(reg, 0)
       /\ UNCHANGED sess
  ELSE \/ /\ sess' = [sess EXCEPT ![NextOf(visited)].closed = TRUE]
          /\ fvisited' = visited \cup {NextOf(visited)}
          /\ fpc' = "closing"
          /\ UNCHANGED <<streams, fdone>>
       \/ /\ \E c \in BOOLEAN :
               sess' = [sess EXCEPT ![NextOf(visited)].closed = (@ \/ c)]
          /\ fvisited' = {}
          /\ fpc' = "idle"
          /\ fdone' = Done(reg, NextOf(visited))
          /\ UNCHANGED streams

\* Variant: a call made after the first one has returned runs the loop again.
FClose_Again ==
  /\ fst = "ok"
  /\ IF fclosed /\ fpc = "closing"
     THEN /\ fdone' = Done(streams, 0)
          /\ UNCHANGED <<sess, streams, fclosed, fpc, fvisited, fcallReg>>
     ELSE /\ fclosed' = TRUE
          /\ fcallReg' = streams
          /\ CloseLoop({}, streams)
  /\ UNCHANGED <<fst, optKey, envKey, config, nupdates>>
  /\ UNCHANGED <<cvars, svars, hvars, avars, uvars, lvars>>

\* close() of the facade is called.
FClose ==
  /\ fst = "ok"
  /\ IF fclosed
     THEN /\ fdone' = Done(streams, 0)
          /\ UNCHANGED <<sess, streams, fclosed, fpc, fvisited, fcallReg>>
     ELSE /\ fclosed' = TRUE
          /\ fcallReg' = streams
          /\ CloseLoop({}, streams)
  /\ UNCHANGED <<fst, optKey, envKey, config, nupdates>>
  /\ UNCHANGED <<cvars, svars, hvars, avars, uvars, lvars>>

\* close() of the facade goes on after await stream.close().
FCloseResume ==
  /\ fpc = "closing"
  /\ CloseLoop(fvisited, fcallReg)
  /\ UNCHANGED <<fst, optKey, envKey, config, fclosed, fcallReg, nupdates>>
  /\ UNCHANGED <<cvars, svars, hvars, avars, uvars, lvars>>

\* ------------------------------------------------------------ loadConfig
\* getConfigSource(): ConfigSourceSchema.parse(process.env.CONFIG_SOURCE ??
\* 'file'), which throws for any other text ("throws" here).
getConfigSource ==
  CASE lsource = "undef"            -> "file"
    [] lsource \in {"file", "mysql"} -> lsource
    [] OTHER                        -> "throws"

\* if (cached && now - cached.loadedAtMs < ttlMs)
Fresh(now) == lcached.set /\ now - lcached.loadedAtMs < TtlMs

\* A loadConfig call: start is its Date.now(), seen the cache it found,
\* pc where it is ("mysql", "file": awaiting that provider; "fallback":
\* awaiting the file provider after mysql failed; "done"; "failed"), hit
\* whether it returned the cached value, n the providers it invoked, why
\* what made it fail, res what it returned.
Call(now, pc, hit, n, why, res) ==
  [start |-> now, seen |-> lcached, pc |-> pc, hit |-> hit, n |-> n,
   why |-> why, res |-> res]

\* Date.now() advances.
LTick ==
  /\ lclock < MaxClock
  /\ lclock' = lclock + 1
  /\ UNCHANGED <<lsource, lcached, lcalls>>
  /\ UNCHANGED <<cvars, svars, hvars, fvars, avars, uvars>>

\* loadConfig() is called and runs up to its first await or its return.
LStart ==
  /\ Len(lcalls) < MaxCalls
  /\ lcalls' = Append(lcalls,
       IF Fresh(lclock)
       THEN Call(lclock, "done", TRUE, 0, "none", lcached.config)
       ELSE IF getConfigSource = "throws"
       THEN Call(lclock, "failed", FALSE, 0, "source", NoConfig)
       ELSE Call(lclock, getConfigSource, FALSE, 1, "none", NoConfig))
  /\ UNCHANGED <<lsource, lclock, lcached>>
  /\ UNCHANGED <<cvars, svars, hvars, fvars, avars, uvars>>

\* The provider call i awaits resolves: cached = { loadedAtMs: now, config }.
LResolve(i) ==
  /\ i \in 1..Len(lcalls)
  /\ lcalls[i].pc \in {"mysql", "file", "fallback"}
  /\ LET loaded == [by |-> i,
                    from |-> IF lcalls[i].pc = "mysql" THEN "mysql" ELSE "file"]
     IN /\ lcached' = [set |-> TRUE, loadedAtMs |-> lcalls[i].start,
                       config |-> loaded]
        /\ lcalls' = [lcalls EXCEPT ![i].pc = "done", ![i].res = loaded]
  /\ UNCHANGED <<lsource, lclock>>
  /\ UNCHANGED <<cvars, svars, hvars, fvars, avars, uvars>>

\* Variant: a failure of the mysql provider is rethrown.
LReject_NoFallback(i) ==
  /\ i \in 1..Len(lcalls)
  /\ lcalls[i].pc \in {"mysql", "file", "fallback"}
  /\ lcalls' = [lcalls EXCEPT ![i].pc = "failed",
                              ![i].why = IF lcalls[i].pc = "mysql"
                                         THEN "mysql" ELSE "file"]
  /\ UNCHANGED <<lsource, lclock, lcached>>
  /\ UNCHANGED <<cvars, svars, hvars, fvars, avars, uvars>>

\* The provider call i awaits rejects: the catch block calls the file
\* provider if the source is mysql, and rethrows otherwise.
LReject(i) ==
  /\ i \in 1..Len(lcalls)
  /\ lcalls[i].pc \in {"mysql", "file", "fallback"}
  /\ lcalls' = CASE lcalls[i].pc = "mysql" ->
                     [lcalls EXCEPT ![i].pc = "fallback", ![i].n = 2]
                  [] lcalls[i].pc = "fallback" ->
                     [lcalls EXCEPT ![i].pc = "failed", ![i].why = "file"]
                  [] OTHER ->
                     [lcalls EXCEPT ![i].pc = "failed", ![i].why = "file"]
  /\ UNCHANGED <<lsource, lclock, lcached>>
  /\ UNCHANGED <<cvars, svars, hvars, fvars, avars, uvars>>

\* ------------------------------------------------ updateOptions on its own
\* Options objects in which every mutable option is undefined or one of two
\* new values, and the other options are all undefined or all given.
AllOpts ==
  {[f \in Mutable \cup Fixed |-> IF f \in Mutable THEN m[f] ELSE r] :
     m \in [Mutable -> {"undef", "n", "m"}], r \in {"undef", "n"}}

\* updateOptions(o), with the call recorded.
UUpdate(o) ==
  /\ fst = "ok"
  /\ ucalls < MaxOptionCalls
  /\ ucalls' = ucalls + 1
  /\ uopts' = o
  /\ ubefore' = config
  /\ config' = UpdateOptions(config, o)
  /\ UNCHANGED <<fst, optKey, envKey, sess, streams, fclosed, fpc, fvisited,
                 fcallReg, fdone, nupdates>>
  /\ UNCHANGED <<cvars, svars, hvars, avars, lvars>>

\* ------------------------------------------------ the assembler on its own
\* for (const frame of bstream.write(arrayBuffer)) with n new bytes.
AWrite(n) ==
  /\ awritten + n <= MaxWritten
  /\ LET w == bstreamWrite(abuf, Decoded(awritten, n))
     IN /\ abuf' = w.buf
        /\ aout' = aout \o w.frames
        /\ alast' = w.frames
  /\ awritten' = awritten + n
  /\ aflushed' = 0
  /\ UNCHANGED <<cvars, svars, hvars, fvars, uvars, lvars>>

\* for (const frame of bstream.flush())
AFlush ==
  /\ LET f == bstreamFlush(abuf)
     IN /\ abuf' = f.buf
        /\ aout' = aout \o f.frames
        /\ alast' = f.frames
  /\ aflushed' = Min(aflushed + 1, 2)
  /\ UNCHANGED awritten
  /\ UNCHANGED <<cvars, svars, hvars, fvars, uvars, lvars>>

\* --------------------------------------------------------- initial states
RECURSIVE SeqsUpTo(_, _)
SeqsUpTo(S, n) ==
  IF n = 0 THEN {<<>>}
  ELSE LET P == SeqsUpTo(S, n - 1)
       IN P \cup {Append(s, c) : s \in {p \in P : Len(p) = n - 1}, c \in S}

CInit(b) ==
  /\ cpc = "init"
  /\ cerr = "none"
  /\ body = b
  /\ pos = 0
  /\ buffer = <<>>
  /\ cbstream = <<>>
  /\ cbytes = 0
  /\ cqueue = <<>>
  /\ cqclosed = FALSE
  /\ csplit = FALSE

SInit ==
  /\ runState = "notstarted"
  /\ rejectWith = "none"
  /\ ws = "null"
  /\ readyState = "NONE"
  /\ wsWhy = "none"
  /\ inputEnded = FALSE
  /\ closed = FALSE
  /\ pi = "idle"
  /\ sent = <<>>
  /\ sentData = <<>>
  /\ sbstream = <<>>
  /\ sbytes = 0
  /\ squeue = <<>>
  /\ sqclosed = FALSE
  /\ pulled = <<>>
  /\ pulledOpen = <<>>
  /\ closeCalls = 0
  /\ wsCloses = 0
  /\ exhausted = FALSE
  /\ msgs = <<>>
  /\ closeEvt = [fired |-> FALSE, why |-> "none", exhausted |-> FALSE,
                 inputEnded |-> FALSE, gotClosed |-> FALSE, pending |-> FALSE]

FInit(opt, env) ==
  /\ fst = "new"
  /\ optKey = opt
  /\ envKey = env
  /\ config = Constructed("undef")
  /\ sess = <<>>
  /\ streams = {}
  /\ fclosed = FALSE
  /\ fpc = "idle"
  /\ fvisited = {}
  /\ fcallReg = {}
  /\ fdone = [n |-> 0, reg |-> {}, failed |-> 0]
  /\ nupdates = 0

UInit ==
  /\ uopts = [f \in Mutable \cup Fixed |-> "undef"]
  /\ ubefore = Constructed("undef")
  /\ ucalls = 0

NoCache == [set |-> FALSE, loadedAtMs |-> 0, config |-> NoConfig]

LInit(src) ==
  /\ lsource = src
  /\ lclock = 0
  /\ lcached = NoCache
  /\ lcalls = <<>>

AInit ==
  /\ abuf = <<>>
  /\ aout = <<>>
  /\ alast = <<>>
  /\ awritten = 0
  /\ aflushed = 0

InitChunked ==
  (\E b \in SeqsUpTo(Chars, MaxBody) : CInit(b)) /\ SInit /\ FInit("undef", "undef") /\ AInit /\ UInit /\ LInit("undef")

NextChunked == CFetch \/ CRead \/ CReadDone \/ CReadError

SpecChunked == InitChunked /\ [][NextChunked]_vars

InitStream == CInit(<<>>) /\ SInit /\ FInit("undef", "undef") /\ AInit /\ UInit /\ LInit("undef")

NextStream ==
  \/ SRun
  \/ WsOpen
  \/ \E d \in Items : PiItem(d)
  \/ PiEnd
  \/ \E m \in Msgs : WsMessage(m)
  \/ WsError
  \/ WsClosing
  \/ WsClose
  \/ SClose

SpecStream == InitStream /\ [][NextStream]_vars

InitAssembler == CInit(<<>>) /\ SInit /\ FInit("undef", "undef") /\ AInit /\ UInit /\ LInit("undef")

NextAssembler == (\E n \in 1..MaxChunk : AWrite(n)) \/ AFlush

SpecAssembler == InitAssembler /\ [][NextAssembler]_vars

\* One session of either kind: a chunked session reading its response body, or
\* a streaming session (which has no response body).
InitSession == InitChunked

NextSession ==
  \/ runState = "notstarted" /\ closeCalls = 0 /\ NextChunked
  \/ cpc = "init" /\ body = <<>> /\ NextStream

SpecSession == InitSession /\ [][NextSession]_vars

InitConfig ==
  /\ CInit(<<>>) /\ SInit /\ FInit("undef", "undef") /\ AInit /\ UInit
  /\ \E src \in {"undef", "file", "mysql", "bad"} : LInit(src)

NextConfig ==
  \/ LTick
  \/ LStart
  \/ \E i \in 1..MaxCalls : LResolve(i)
  \/ \E i \in 1..MaxCalls : LReject(i)

SpecConfig == InitConfig /\ [][NextConfig]_vars

InitOptions ==
  CInit(<<>>) /\ SInit /\ FInit("A", "undef") /\ AInit /\ UInit /\ LInit("undef")

NextOptions == FNew \/ \E o \in AllOpts : UUpdate(o)

SpecOptions == InitOptions /\ [][NextOptions]_vars

InitFacade ==
  /\ CInit(<<>>)
  /\ SInit
  /\ \E opt \in {"undef", "", "A"}, env \in {"undef", "", "B"} : FInit(opt, env)
  /\ AInit /\ UInit /\ LInit("undef")

NextFacade ==
  \/ FNew
  \/ FSynthesize
  \/ FStream
  \/ \E o \in Opts : FUpdateOptions(o)
  \/ \E i \in 1..MaxSessions : SessRun(i)
  \/ \E i \in 1..MaxSessions : SessClose(i)
  \/ FClose
  \/ FCloseResume

SpecFacade == InitFacade /\ [][NextFacade]_vars

\* ================================================================ properties
Frames(q) == [i \in 1..Len(q) |-> q[i].frame]

HasFinal(q) == \E i \in 1..Len(q) : q[i].final

\* The lines of the response that were delivered with their newline.
CompleteLines == Front(Split(SubSeq(body, 1, pos)))

LineKind(line) == IF IsBlank(line) THEN "blank" ELSE JSONparse(line)

WellFormed(line) == LineKind(line) # "SyntaxError"

\* The audio bytes carried by the lines that precede the first error record.
RECURSIVE AudioBefore(_)
AudioBefore(lines) ==
  IF lines = <<>> THEN 0
  ELSE LET k == LineKind(Head(lines))
       IN IF k = "ER" THEN 0
          ELSE (IF k \in {"A1", "A2"} THEN AudioLen(k) ELSE 0)
               + AudioBefore(Tail(lines))

HasLine(kinds) == \E i \in 1..Len(CompleteLines) : LineKind(CompleteLines[i]) \in kinds

\* A close event that the remote side or the transport caused.
RemoteCloseFired == closeEvt.fired /\ closeEvt.why \in {"remote", "error"}

\* C1: a chunked session whose run() completed without error has put zero or
\* more non-final events followed by exactly one final event, the last one.
C1_OneFinalEventLast ==
  cpc = "done" =>
    /\ Len(cqueue) >= 1
    /\ cqueue[Len(cqueue)].final
    /\ \A i \in 1..(Len(cqueue) - 1) : ~cqueue[i].final

\* C2: a streaming session has emitted a final event if and only if it has
\* received a contextClosed message.
C2_FinalIffContextClosed == HasFinal(squeue) <=> "closed" \in Range(msgs)

\* C3: once close_context has been sent, nothing is sent after it: a
\* close_context is always the last message given to the socket.
C3_NothingSentAfterCloseContext ==
  \A i \in 1..Len(sent) : sent[i] = "close_context" => i = Len(sent)

C3_Witness ==
  /\ "close_context" \in Range(sent)
  /\ "send_text" \in Range(sent)
  /\ msgs # <<>>
  /\ closed
  /\ readyState = "CLOSED"

\* C4: the step in which the input is found exhausted while the socket is
\* open sends exactly flush_context then close_context, in that step (no
\* inbound message is awaited), and nothing is sent after the input is
\* exhausted.
C4_ExhaustedInputSendsFlushThenClose ==
  [][ /\ (~exhausted /\ exhausted' /\ ws = "set" /\ readyState = "OPEN")
         => sent' = sent \o <<"flush_context", "close_context">>
      /\ exhausted => sent' = sent ]_vars

C4_Witness ==
  /\ exhausted
  /\ msgs = <<>>
  /\ sent = <<"create", "send_text", "send_text", "flush_context", "close_context">>

\* C5: when the remote side or the transport closes the socket of a pending
\* session whose input was not exhausted, run() is rejected.
C5_RemoteCloseBeforeEndOfInputRejects ==
  (RemoteCloseFired /\ closeEvt.pending /\ ~closeEvt.exhausted)
    => (runState = "rejected" /\ rejectWith = "unexpected")

\* C6: when the socket of a pending session closes before contextClosed was
\* received, run() is rejected (it neither stays pending nor resolves).
C6_CloseBeforeContextClosedRejects ==
  (RemoteCloseFired /\ closeEvt.pending /\ ~closeEvt.gotClosed)
    => runState = "rejected"

\* C7: after a message with a non-success status was received, no event is
\* put on the event sequence.
C7_NoEventAfterErrorStatus ==
  [][ "status" \in Range(msgs) => squeue' = squeue ]_vars

\* C8: when run() of a chunked session fails on an error record, the audio
\* processed is exactly that of the lines before the first error record, the
\* events put for it are all non-final and still there, the assembler was not
\* flushed and the event sequence was not closed.
C8_ErrorRecordAborts ==
  cerr = "ApiError" =>
    /\ cpc = "failed"
    /\ HasLine({"ER"})
    /\ cbytes = AudioBefore(CompleteLines)
    /\ Flatten(Frames(cqueue)) \o cbstream = Decoded(0, cbytes)
    /\ ~HasFinal(cqueue)
    /\ ~cqclosed

C8_Witness ==
  /\ cerr = "ApiError"
  /\ cqueue # <<>>
  /\ pos < Len(body)

\* C9: a line that is not JSON never makes run() fail, and a session that
\* completes has processed exactly the well-formed lines: its events carry
\* the audio of the response with the malformed lines removed, the assembler
\* is flushed and the event sequence closed.
C9_MalformedLineSkipped ==
  /\ cerr # "SyntaxError"
  /\ cerr \in {"ApiError", "TypeError"} => HasLine({"ER", "NU"})
  /\ cpc = "done" =>
       /\ cqclosed
       /\ cbstream = <<>>
       /\ Flatten(Frames(cqueue))
            = Decoded(0, AudioBefore(SelectSeq(CompleteLines, WellFormed)))

C9_Witness ==
  /\ cpc = "done"
  /\ Len(CompleteLines) >= 2
  /\ LineKind(CompleteLines[1]) = "SyntaxError"
  /\ cqueue # <<>>

\* C10: a message that cannot be parsed, has no result or has a result that
\* is not recognised leaves the promise, the event sequence, the assembler
\* and the input-ended flag as they were.
C10_IgnoredMessageChangesNothing ==
  [][ (Len(msgs') = Len(msgs) + 1 /\ Last(msgs') \in {"bad", "noresult", "other"})
        => UNCHANGED <<runState, rejectWith, squeue, sqclosed, sbstream,
                       sbytes, inputEnded>> ]_vars

C10_Witness ==
  /\ Len(msgs) = 3
  /\ msgs[1] \in {"bad", "noresult", "other"}
  /\ runState = "resolved"
  /\ squeue # <<>>

\* The messages sent for caller input: those after create, without the
\* flush_context and close_context that end the input.
Forwarded ==
  LET n == Len(sent)
      m == IF n >= 1 /\ sent[n] = "close_context" THEN n - 2 ELSE n
  IN [i \in 1..(m - 1) |-> [msg |-> sent[i + 1], data |-> sentData[i + 1]]]

\* The message an input item is to be forwarded as.
Image(d) == IF d = "FLUSH" THEN [msg |-> "flush_context", data |-> "-"]
            ELSE [msg |-> "send_text", data |-> d]

ForwardedInOrder ==
  /\ Len(sent) = Len(sentData)
  /\ Len(Forwarded) <= Len(pulled)
  /\ \A i \in 1..Len(Forwarded) : Forwarded[i] = Image(pulled[i])

\* C11: the messages sent for caller input are, one for one and in order, the
\* images of a prefix of the items pulled, and no item pulled while the
\* socket was OPEN is missing from them.
C11_ForwardedInOrderNoneDropped ==
  /\ ForwardedInOrder
  /\ \A i \in 1..Len(pulled) : pulledOpen[i] => i <= Len(Forwarded)

\* The audio bytes carried by all the lines.
RECURSIVE TotalAudio(_)
TotalAudio(lines) ==
  IF lines = <<>> THEN 0
  ELSE (IF LineKind(Head(lines)) \in {"A1", "A2"}
        THEN AudioLen(LineKind(Head(lines))) ELSE 0) + TotalAudio(Tail(lines))

\* C12: when a chunked session completes, the payloads of its events in
\* emission order are the decoded audio bytes of the lines in arrival order,
\* and only the last event can be final.
C12_ChunkedPayloadsAreTheAudio ==
  cpc = "done" =>
    /\ Flatten(Frames(cqueue)) = Decoded(0, TotalAudio(CompleteLines))
    /\ \A i \in 1..Len(cqueue) : cqueue[i].final => i = Len(cqueue)

C12_Witness ==
  /\ cpc = "done"
  /\ Len(CompleteLines) = 2
  /\ Len(cqueue) = 2
  /\ ~cqueue[1].final
  /\ cqueue[2].final

\* C17: close() of a streaming session leaves no socket reference, marks the
\* session closed and has called ws.close() at most once in all; a close()
\* on a session that a close() left behind changes nothing of the session.
C17_CloseIsIdempotent ==
  [][ SClose =>
        /\ ws' = "null"
        /\ closed'
        /\ wsCloses' <= 1
        /\ (ws = "null" /\ closed) => UNCHANGED svars ]_vars

C17_Witness ==
  /\ closeCalls = 2
  /\ wsCloses = 1
  /\ readyState = "CLOSED"
  /\ runState = "resolved"

\* C18: once the socket closed by close() has delivered its close event,
\* run() is settled.
C18_CloseSettlesRun ==
  (closeEvt.fired /\ closeEvt.why = "local") => runState # "pending"

\* C19: once run() has been rejected for an error status or a transport
\* error, nothing more is sent and the session's state stays as it is.
C19_FailedIsAbsorbing ==
  [][ (runState = "rejected" /\ rejectWith \in {"status", "transport"})
        => UNCHANGED <<sent, inputEnded, pi, squeue, sqclosed, sbstream>> ]_vars

\* C20: run() is resolved only by the handling of a contextClosed message
\* with no failure before it, and then the assembler is empty and the event
\* sequence closed.
C20_ResolvedOnlyByContextClosed ==
  [][ runState' = "resolved" =>
        /\ "closed" \in Range(msgs')
        /\ rejectWith' = "none"
        /\ sqclosed'
        /\ runState = "pending" =>
             /\ Len(msgs') = Len(msgs) + 1
             /\ Last(msgs') = "closed"
             /\ sbstream' = <<>> ]_vars

C20_Witness ==
  /\ runState = "resolved"
  /\ exhausted
  /\ HasFinal(squeue)
  /\ Len(squeue) = 2

\* C13: when a close() call of the facade resolves, the registry is empty and
\* every session that was registered when that call was made is closed.
C13_FacadeCloseClosesAll ==
  [][ (fdone' # fdone /\ fdone'.failed = 0) =>
        /\ streams' = {}
        /\ \A i \in fdone'.reg : sess'[i].closed ]_vars

\* C14: the step that creates a session, chunked or streaming, adds it to the
\* registry.
C14_EverySessionRegistered ==
  [][ Len(sess') > Len(sess) => Len(sess') \in streams' ]_vars

\* C15: a session that has started uses the voice, model, temperature and
\* speaking rate that were in effect when it was created.
C15_SessionUsesConfigAtCreation ==
  \A i \in 1..Len(sess) :
    sess[i].started => \A f \in Mutable : sess[i].used[f] = sess[i].atCreate[f]

\* C16: the constructor throws exactly when neither opts.apiKey nor the
\* environment variable holds a non-empty credential.
C16_ThrowsIffNoCredential ==
  fst # "new" => (fst = "threw" <=> (Falsy(optKey) /\ Falsy(envKey)))

\* C21: whenever the input-ended flag is true, the final flush_context
\* followed by close_context has been sent on the socket.
C21_InputEndedAfterFlushClose ==
  inputEnded =>
    \E i \in 1..(Len(sent) - 1) :
      sent[i] = "flush_context" /\ sent[i + 1] = "close_context"

\* C22: create is sent exactly once, when the socket opens, and it is the
\* first outbound message; the input loop starts only after it was sent.
C22_CreateSentOnceFirst ==
  /\ \A i \in 1..Len(sent) : sent[i] = "create" <=> i = 1
  /\ (Len(sent) > 0) <=> (pi # "idle")
  /\ readyState = "OPEN" => Len(sent) > 0
  /\ Len(sent) > 0 => readyState \notin {"NONE", "CONNECTING"}

C22_Witness ==
  /\ Len(sent) = 3
  /\ sent[2] = "send_text"
  /\ sent[3] = "flush_context"
  /\ pi = "loop"

\* C23: for every sequence of write calls followed by flush, the frames
\* returned, concatenated in emission order, are the bytes written; after
\* flush the buffer is empty and a second flush returns no frame.
C23_AssemblerRoundTrip ==
  /\ Flatten(aout) \o abuf = Decoded(0, awritten)
  /\ aflushed >= 1 => /\ abuf = <<>>
                      /\ Flatten(aout) = Decoded(0, awritten)
  /\ aflushed = 2 => alast = <<>>

C23_Witness ==
  /\ aflushed = 2
  /\ awritten = 5
  /\ Len(aout) = 3
  /\ Len(aout[3]) = 1

\* What one read of everything delivered so far would have produced.
OneRead ==
  ProcessLines(CompleteLines,
               [bstream |-> <<>>, queue |-> <<>>, nbytes |-> 0, err |-> "none"])

\* C24: the lines parsed and the events put depend only on the bytes
\* delivered, not on how the reads split them, and the text after the last
\* newline is kept unparsed.
C24_SplitIndependent ==
  /\ buffer = Last(Split(SubSeq(body, 1, pos)))
  /\ cbytes = OneRead.nbytes
  /\ IF cpc = "done"
     THEN cqueue = OneRead.queue
                     \o Events(bstreamFlush(OneRead.bstream).frames, TRUE)
     ELSE cqueue = OneRead.queue /\ cbstream = OneRead.bstream
  /\ OneRead.err # "none" <=> cerr \in {"ApiError", "TypeError"}
  /\ OneRead.err # "none" => cerr = OneRead.err

C24_Witness ==
  /\ cpc = "done"
  /\ csplit
  /\ Len(CompleteLines) = 2
  /\ Len(cqueue) = 2

\* C25: when the response stream ends, the text after the last newline is
\* dropped unparsed: the step derives no audio and no error from it, and it
\* flushes the assembler and closes the event sequence.
C25_TrailingTextDiscarded ==
  [][ (cpc = "reading" /\ pos = Len(body) /\ cpc' # "reading" /\ cerr' # "transport")
        => /\ cpc' = "done"
           /\ cerr' = "none"
           /\ cbytes' = cbytes
           /\ Flatten(Frames(cqueue')) = Flatten(Frames(cqueue)) \o cbstream
           /\ cbstream' = <<>>
           /\ cqclosed' ]_vars

C25_Witness ==
  /\ cpc = "done"
  /\ buffer # <<>>
  /\ JSONparse(buffer) \in {"A1", "A2", "ER"}
  /\ cqueue # <<>>

\* C26: the close event of a socket that close() closed never rejects run()
\* with the unexpected-close error.
C26_CallerCloseNotUnexpected ==
  (closeEvt.fired /\ closeEvt.why \in {"local", "abort"})
    => rejectWith # "unexpected"

\* C27: once close() has returned, the session has no socket that is
\* connecting or open, whether close() ran before or after run().
C27_NoSocketAfterClose ==
  closeCalls >= 1 => readyState \notin {"CONNECTING", "OPEN"}

\* C28: the outcome of a socket event does not depend on a field the
\* input-draining activity writes: whenever the close event can be delivered,
\* the close handler settles run() the same way for every value of the
\* input-ended flag.
C28_SocketEventIgnoresInputProgress ==
  (readyState = "CLOSING" /\ wsWhy # "abort")
    => \A ie \in BOOLEAN :
         CloseOutcome(runState, ie) = CloseOutcome(runState, inputEnded)

\* A step in which a close() call of the facade made after the closed flag
\* was set returns.
LaterCloseReturns == fclosed /\ fdone' # fdone /\ fpc' = fpc

\* Streaming session i, born as the set says, is registered after the step,
\* and if the step closes it then the step is not one of the facade's loop.
KeptAndNotClosedByFacade(i, births) ==
  (sess'[i].kind = "stream" /\ sess'[i].born \in births)
    => /\ i \in streams'
       /\ (i <= Len(sess) /\ ~sess[i].closed /\ sess'[i].closed)
            => fvisited' = fvisited

C30_CloseGoesOnAfterFailure ==
  [][ (fdone' # fdone /\ fdone'.failed # 0)
        => /\ streams' = {}
           /\ \A i \in fdone'.reg : i # fdone'.failed => sess'[i].closed ]_vars

\* C31: the registry changes only in a stream() step, which adds exactly the
\* new session, and in a close() step of the facade, which empties it; a
\* step that starts or closes one session leaves it as it is.
C31_RegistryChangedOnlyByFacade ==
  [][ /\ streams' # streams
           => \/ /\ Len(sess') = Len(sess) + 1
                 /\ Last(sess').kind = "stream"
                 /\ streams' = streams \cup {Len(sess')}
              \/ /\ streams' = {}
                 /\ fclosed'
                 /\ fpc' = "idle"
                 /\ (fpc = "closing" \/ ~fclosed)
      /\ (Len(sess') = Len(sess) /\ sess' # sess /\ fvisited' = fvisited)
           => streams' = streams ]_vars

C31_Witness ==
  \E i \in 1..Len(sess) :
    /\ sess[i].closed
    /\ sess[i].started
    /\ ~fclosed
    /\ i \in streams

\* C32: after updateOptions, apiKey, sample rate, encoding, bit rate and the
\* two URLs are what they were, whatever the options object holds, and each
\* of voice, model, temperature and speaking rate is the option given, or
\* what it was when the option is undefined.
C32_UpdateOptionsFrame ==
  ucalls > 0 =>
    /\ \A f \in Fixed : config[f] = ubefore[f]
    /\ \A f \in Mutable :
         config[f] = IF uopts[f] # "undef" THEN uopts[f] ELSE ubefore[f]

C32_Witness ==
  /\ ucalls = 2
  /\ uopts["apiKey"] = "n"
  /\ uopts["voice"] = "undef"
  /\ uopts["model"] = "m"
  /\ ubefore["voice"] = "n"
  /\ ubefore["model"] = "n"
  /\ config["voice"] = "n"
  /\ config["model"] = "m"
  /\ config["apiKey"] = "A"

\* C33: a chunked session never goes back to issuing its request and does
\* nothing more once it failed; a streaming session never creates a second
\* socket, sends create and close_context at most once and at most one
\* message per input item, and sends nothing after a socket error or an
\* unexpected close.
C33_NoRetry ==
  [][ /\ cpc # "init" => cpc' # "init"
      /\ cpc = "failed" => UNCHANGED cvars
      /\ readyState # "NONE"
           => /\ readyState' # "NONE"
              /\ readyState' = "CONNECTING" => readyState = "CONNECTING"
      /\ runState # "notstarted" => runState' # "notstarted"
      /\ Len(sent') <= Len(pulled') + 3
      /\ Len(SelectSeq(sent', LAMBDA m : m \in {"create", "close_context"})) <= 2
      /\ Len(SelectSeq(sent', LAMBDA m : m = "send_text")) <= Len(pulled')
      /\ (runState = "rejected" /\ rejectWith \in {"transport", "unexpected"})
           => sent' = sent ]_vars

C33_Witness ==
  /\ runState = "rejected"
  /\ rejectWith = "transport"
  /\ readyState = "CLOSED"
  /\ Len(pulled) = 2
  /\ sent = <<"create", "send_text">>
  /\ pi = "done"

\* C34: a chunked session whose request got a non-success status or a
\* response without body has failed without reading anything, and its event
\* sequence holds no event and was not closed.
C34_FailedRequestEmitsNothing ==
  cerr \in {"http", "noreader"} =>
    /\ cpc = "failed"
    /\ pos = 0
    /\ cqueue = <<>>
    /\ ~cqclosed

C34_Witness ==
  /\ cerr = "http"
  /\ cpc = "failed"
  /\ body = <<"A2", "NL">>

RECURSIVE AudioUntilClosed(_)
AudioUntilClosed(ms) ==
  IF ms = <<>> \/ Head(ms) = "closed" THEN 0
  ELSE (IF Branch(Head(ms)) = "audio" THEN ChunkLen(Head(ms)) ELSE 0)
       + AudioUntilClosed(Tail(ms))

\* C36: when run() of a streaming session has resolved, the payloads of its
\* events in emission order are the audio bytes received before
\* contextClosed in arrival order; only the last event can be final, and the
\* events before it are whole frames.
C36_StreamPayloadsAreTheAudio ==
  runState = "resolved" =>
    /\ Flatten(Frames(squeue)) = Decoded(0, AudioUntilClosed(msgs))
    /\ \A i \in 1..Len(squeue) :
         /\ squeue[i].final => i = Len(squeue)
         /\ ~squeue[i].final => Len(squeue[i].frame) = FrameSize

C36_Witness ==
  /\ runState = "resolved"
  /\ msgs = <<"audio2", "audio1", "closed">>
  /\ Len(squeue) = 2
  /\ ~squeue[1].final
  /\ squeue[2].final

\* C37: no message handled by run() touches the socket, and an open socket
\* leaves the open state only because close() was called, the remote side
\* closed it or the transport failed.
C37_RunNeverClosesSocket ==
  [][ /\ Len(msgs') > Len(msgs) => UNCHANGED <<ws, readyState, wsWhy>>
      /\ (readyState = "OPEN" /\ readyState' # "OPEN")
           => /\ wsWhy' \in {"local", "remote", "error"}
              /\ wsWhy' = "local" => wsCloses' = wsCloses + 1 ]_vars

C37_Witness ==
  /\ runState = "resolved"
  /\ readyState = "OPEN"
  /\ ws = "set"
  /\ msgs = <<"closed", "status", "audio2">>
  /\ Len(squeue) = 0


\* What call i was before this step ("new": it had not started).
Before(i) == IF i <= Len(lcalls) THEN lcalls[i].pc ELSE "new"

\* The parts of C38 that do not say when loadConfig fails: a failure of the
\* mysql provider never fails the call but makes it call the file provider,
\* whose configuration it returns and caches; a call that fails leaves the
\* cached entry as it was.
FallsBack(i) ==
  LET old == Before(i)
      new == lcalls'[i]
  IN /\ old = "mysql" =>
          /\ new.pc \in {"mysql", "fallback", "done"}
          /\ new.pc = "fallback" => (lsource = "mysql" /\ lcached' = lcached)
     /\ (old = "fallback" /\ new.pc = "done") =>
          /\ new.res.from = "file"
          /\ lcached'.set /\ lcached'.config = new.res
     /\ (old # "failed" /\ new.pc = "failed") => lcached' = lcached

\* C38 as stated: when the source is mysql and the mysql load fails,
\* loadConfig returns and caches the file provider's configuration;
\* loadConfig fails only when the file provider fails; a failed load
\* leaves the cached value unchanged.
C38_FallsBackInsteadOfFailing_Stated ==
  [][ \A i \in 1..Len(lcalls') :
        /\ FallsBack(i)
        /\ (Before(i) # "failed" /\ lcalls'[i].pc = "failed") =>
             (Before(i) \in {"file", "fallback"} /\ lcalls'[i].why = "file")
    ]_vars

\* C38 amended: when the source is mysql and the mysql load fails,
\* loadConfig returns and caches the file provider's configuration;
\* loadConfig fails only when the file provider fails or when CONFIG_SOURCE
\* is set to something other than "file" or "mysql" (and then before any
\* provider is called); a failed load leaves the cached value unchanged.
C38_FallsBackInsteadOfFailing ==
  [][ \A i \in 1..Len(lcalls') :
        /\ FallsBack(i)
        /\ (Before(i) # "failed" /\ lcalls'[i].pc = "failed") =>
             \/ Before(i) \in {"file", "fallback"} /\ lcalls'[i].why = "file"
             \/ /\ Before(i) = "new" /\ lcalls'[i].why = "source"
                /\ lcalls'[i].n = 0
                /\ lsource \notin {"undef", "file", "mysql"}
    ]_vars

\* A call with source mysql whose mysql load failed has returned the file
\* provider's configuration, which is the cached one.
C38_Witness ==
  \E i \in 1..Len(lcalls) :
    /\ lsource = "mysql" /\ lcalls[i].pc = "done" /\ lcalls[i].n = 2
    /\ lcalls[i].res.from = "file"
    /\ lcached.set /\ lcached.config = lcalls[i].res


\* The cache entry call i found was fresh at the call's start time.
FoundFresh(i) ==
  /\ lcalls[i].seen.set
  /\ lcalls[i].start - lcalls[i].seen.loadedAtMs < TtlMs

\* C39: a loadConfig call that starts less than the TTL after the cached
\* entry's load time returns the cached configuration and invokes no
\* provider; every other call invokes a provider; and the cached entry is
\* never replaced by a configuration whose load started earlier than the
\* one already cached.
C39_CacheServesOnlyFresh ==
  [][ /\ \A i \in 1..Len(lcalls) :
           /\ lcalls[i].hit <=> FoundFresh(i)
           /\ lcalls[i].hit =>
                /\ lcalls[i].pc = "done" /\ lcalls[i].n = 0
                /\ lcalls[i].res = lcalls[i].seen.config
           /\ ~lcalls[i].hit => lcalls[i].n >= 1
      /\ (lcached.set /\ lcached' # lcached) =>
           lcached'.loadedAtMs >= lcached.loadedAtMs
    ]_vars

====
